---------------------------- MODULE Spec2Model ----------------------------
(***************************************************************************)
(* Ingestion engine of Client_API_VN: the paginated fetch client           *)
(* (biolovision/api.py, BiolovisionAPI._url_get) and the differential      *)
(* sync manager (export_vn/download_vn.py, Observations.update) with the   *)
(* store collaborator it drives (export_vn/store_postgresql.py).           *)
(*                                                                         *)
(* SpecFetch  : one client instance serving successive _url_get calls      *)
(*              against a provider that answers arbitrarily.               *)
(* SpecUpdate : one run of Observations.update over a list of partitions.  *)
(***************************************************************************)
EXTENDS Integers, Sequences, FiniteSets, Bags

\* ------------------------------------------------------------------ bounds
MaxRetry == 2
MaxChunks == 2
MaxCalls == 2
MaxLen == 1
MaxPart == 2
MaxDiff == 3
SyncRetry == 1
MaxKey == 2
MaxTask == 2
MaxWorker == 2
MaxQueue == 2
MaxFeed == 70
MaxDays == 40
MaxData == 2

\* ------------------------------------------------------ fetch client state
VARIABLES
    max_retry,        \* self._limits["max_retry"]
    max_chunks,       \* self._limits["max_chunks"]
    transfer_errors,  \* self._transfer_errors
    http_status,      \* self._http_status
    fpc,              \* position of the current _url_get call
    nb_chunks,        \* local nb_chunks
    params_key,       \* params["pagination_key"], 0 when the key is absent
    data_rec,         \* local data_rec
    err_arg,          \* argument of the exception raised by the call
    calls,            \* number of _url_get calls started on this client
    start_errors,     \* transfer_errors when the current call started
    resps,            \* the current call's requests with their responses
    no_body           \* TRUE when the current call is api_search with q_params None

fvars == <<max_retry, max_chunks, transfer_errors, http_status, fpc, nb_chunks,
           params_key, data_rec, err_arg, calls, start_errors, resps,
           no_body>>

\* ------------------------------------------- differential sync manager state
VARIABLES
    taxo_groups,   \* TaxoGroupsAPI.api_list()['data'] as cached: access_mode by id, <<>> before the first call
    watermark,     \* increment_log table of the current site: last_ts, 0 = no row
    download_log,  \* download_log table: the audit entries, oldest first
    now,           \* the clock read by datetime.now()
    upc,           \* position of update()
    uerr,          \* exception that ended update()
    get_since,     \* local get_since
    taxo_list,     \* local taxo_list
    ti,            \* index in taxo_list of the partition being processed
    since,         \* local since, 0 = None
    items_dict,    \* diff response of the current partition
    updated,       \* local updated
    deleted,       \* local deleted
    ui,            \* index in updated of the next observation to get
    events,        \* calls made for the current partition, in order
    cur,           \* the partition being processed, 0 before the first
    wm_before,     \* the increment_log table when the current partition began
    started_at     \* clock value when the current partition began

uvars == <<taxo_groups, watermark, download_log, now, upc, uerr, get_since,
           taxo_list, ti, since, items_dict, updated, deleted, ui, events,
           cur, wm_before, started_at>>

\* ------------------------------------------------ upsert pipeline state
VARIABLES
    observations_json,   \* table observations_json: rows id, site, update_ts, item
    uuid_xref,           \* table uuid_xref of the current site: rows id, universal_id, uuid, update_ts
    forms_json,          \* table forms_json of the current site: rows id, item
    observations_queue,  \* self._observations_queue, oldest first
    wpc,                 \* position of each observation_worker thread
    witem,               \* each worker's local item: its elem
    wconn,               \* each worker's local item: its conn
    wrow,                \* each worker's local row: TRUE when fetchone() found one
    spc,                 \* position of the control thread in the store
    obs_dict,            \* what _store_observation has still to go through of items_dict['data']
    xi,                  \* index i of __exit__: sentinels put, then threads joined
    nb_obs,              \* local nb_obs
    clock,               \* number of uuid4() values drawn so far
    nb_uuid,             \* number of _store_uuid calls made
    nb_put,              \* number of write tasks put on the queue
    nb_done,             \* number of write tasks whose store_1_observation returned
    nb_given             \* number of sightings in the response of the current store call

svars == <<observations_json, uuid_xref, forms_json, observations_queue, wpc,
           witem, wconn, wrow, spc, obs_dict, xi, nb_obs, clock, nb_uuid, nb_put,
           nb_done, nb_given>>

\* ------------------------------------------------ synchronous upsert state
VARIABLES
    json_tables,   \* the <controler>_json tables of the simple and geometry controlers
    last_store     \* the last store made: its controler, the rows it had to write, the table before it

tvars == <<json_tables, last_store>>

\* ------------------------------------------------- rate regulator state
VARIABLES
    rpc,           \* position of the window walk of _store_search
    pid_integral,  \* the integral term the PID object holds, in thousandths of a day
    delta_days,    \* local delta_days
    seq,           \* local seq
    law,           \* the window size the integrating law gives, in thousandths of a day
    fed            \* the record counts fed to the PID in this walk

rvars == <<rpc, pid_integral, delta_days, seq, law, fed>>

\* ------------------------------------------------- backfill walk state
VARIABLES
    start_date,    \* local start_date, in days after min_date
    end_date,      \* local end_date, in days after min_date
    walked         \* the taxo_groups whose walk has reached min_date

bvars == <<start_date, end_date, walked>>

\* ------------------------------------------------- watermark table state
VARIABLES
    increment_log, \* table increment_log: a bag of rows site, taxo_group, last_ts
    last_logged,   \* last_ts of the latest increment_log call of each (site, taxo_group), 0 = no call
    got            \* the latest increment_get call: its arguments and what it returned

wvars == <<increment_log, last_logged, got>>

lvars == <<fpc, nb_chunks, params_key, data_rec, err_arg, calls, start_errors,
           resps, no_body>>
vars == <<fvars, uvars, svars, tvars, rvars, bvars, wvars>>

BadStatus == {404, 500}
Kinds == {"raw", "data", "obs"}

\* A decoded body. kind "raw" is a bare list, "data" is {"data": [...]},
\* "obs" is {"data": {"sightings": [...], "forms": [...]}} with either key
\* optional, "empty" is {} (json.loads("{}")), "unset" is the unbound local.
Body(k, l, hs, s, hf, f) ==
    [kind |-> k, lst |-> l, hasS |-> hs, s |-> s, hasF |-> hf, f |-> f]
EmptyBody == Body("empty", <<>>, FALSE, <<>>, FALSE, <<>>)
Unset == Body("unset", <<>>, FALSE, <<>>, FALSE, <<>>)
Crash == Body("crash", <<>>, FALSE, <<>>, FALSE, <<>>)

\* Argument of the raised HTTPError
NoArg == [kind |-> "none", code |-> 0]
StatusArgMut(status_code) == [kind |-> "status", code |-> transfer_errors]
StatusArg(status_code) == [kind |-> "status", code |-> status_code]
JsonArg == [kind |-> "resp.json exception", code |-> 0]

\* One request of the call with the response it got. body, chunked and key
\* (the pagination_key header, 0 when absent) are read on status 200 only.
Response(rq, st, dec, b, chunked, key) ==
    [req |-> rq, status |-> st, decoded |-> dec, body |-> b,
     chunked |-> chunked, key |-> key]
IsChunk(r) == r.status = 200 /\ r.decoded
IsFailure(r) == ~IsChunk(r)
Chunks == SelectSeq(resps, IsChunk)
Failures == SelectSeq(resps, IsFailure)
Last(q) == q[Len(q)]

RECURSIVE Flat(_, _)
\* All the elements of field fld of the bodies of log, in arrival order.
Flat(log, fld) ==
    IF log = <<>> THEN <<>>
    ELSE (IF fld = "lst" THEN Head(log).body.lst
          ELSE IF fld = "s" THEN Head(log).body.s ELSE Head(log).body.f)
         \o Flat(Tail(log), fld)

Delivered(log) == Len(Flat(log, "lst")) + Len(Flat(log, "s")) + Len(Flat(log, "f"))

\* Records n+1 .. n+len
Fresh(n, len) == [i \in 1..len |-> n + i]

\* The pagination_key header the provider may send with the next response:
\* absent (0), or a token it has not sent before in this call.
NextKeys == {0, Len(resps) + 1}

\* The bodies the provider may send as the next chunk of the current call:
\* of the kind of the call's first chunk, holding records not sent before.
NextBodies ==
    LET n == Delivered(Chunks)
        ks == IF Chunks = <<>> THEN Kinds ELSE {Chunks[1].body.kind}
    IN  {Body(k, Fresh(n, l), FALSE, <<>>, FALSE, <<>>) :
            k \in ks \cap {"raw", "data"}, l \in 0..MaxLen}
        \cup
        {Body("obs", <<>>, TRUE, Fresh(n, ls), FALSE, <<>>) :
            k \in ks \cap {"obs"}, ls \in 0..MaxLen}
        \cup
        {Body("obs", <<>>, FALSE, <<>>, TRUE, Fresh(n, lf)) :
            k \in ks \cap {"obs"}, lf \in 0..MaxLen}
        \cup
        {Body("obs", <<>>, TRUE, Fresh(n, l), TRUE, Fresh(n + l, l)) :
            k \in ks \cap {"obs"}, l \in 0..MaxLen}

LoopCond(nb) == nb < max_chunks

NextErrorsMut(errs) == 1
NextErrors(errs) == errs + 1

BudgetExceededMut(errs) == errs >= max_retry
BudgetExceeded(errs) == errs > max_retry

ChunksExceeded(nb) == nb >= max_chunks

MoreToComeMut(chunked, key) == key # 0
\* "Is there more data to come?": transfer-encoding is chunked and the
\* pagination_key header is there
MoreToCome(chunked, key) == chunked /\ key # 0

\* "sightings" branch of the merge
MergeSightings(nb, rec, ch) ==
    IF ~ch.hasS THEN rec
    ELSE IF nb = 0 THEN ch
    ELSE IF rec.kind # "obs" THEN Crash
    ELSE IF rec.hasS THEN [rec EXCEPT !.s = rec.s \o ch.s]
    ELSE [rec EXCEPT !.hasS = TRUE, !.s = ch.s]

\* "forms" branch of the merge
MergeFormsMut(nb, rec, ch) ==
    IF ~ch.hasF \/ rec.kind = "crash" THEN rec
    ELSE IF nb = 0 THEN ch
    ELSE IF rec.kind # "obs" THEN Crash
    ELSE IF rec.hasF THEN [rec EXCEPT !.f = rec.f \o ch.f]
    ELSE rec
MergeForms(nb, rec, ch) ==
    IF ~ch.hasF \/ rec.kind = "crash" THEN rec
    ELSE IF nb = 0 THEN ch
    ELSE IF rec.kind # "obs" THEN Crash
    ELSE IF rec.hasF THEN [rec EXCEPT !.f = rec.f \o ch.f]
    ELSE [rec EXCEPT !.hasF = TRUE, !.f = ch.f]

\* Initialize or append to the response, depending on the content
MergeChunk(nb, rec, ch) ==
    IF ch.kind = "obs" THEN MergeForms(nb, MergeSightings(nb, rec, ch), ch)
    ELSE IF ch.kind = "data" THEN
        IF nb = 0 THEN ch
        ELSE IF rec.kind # "data" THEN Crash
        ELSE [rec EXCEPT !.lst = rec.lst \o ch.lst]
    ELSE \* no "data" key: a bare list, or {} after a decoding error
        IF nb = 0 THEN ch
        ELSE IF rec.kind # "raw" THEN Crash
        ELSE [rec EXCEPT !.lst = rec.lst \o ch.lst]

\* A client as built by __init__, for any non-negative max_retry and any
\* positive max_chunks of the configuration.
FInit ==
    /\ max_retry \in 0..MaxRetry
    /\ max_chunks \in 1..MaxChunks
    /\ transfer_errors = 0
    /\ http_status = 0
    /\ fpc = "idle"
    /\ nb_chunks = 0
    /\ params_key = 0
    /\ data_rec = Unset
    /\ err_arg = NoArg
    /\ calls = 0
    /\ start_errors = 0
    /\ resps = <<>>
    /\ no_body = FALSE

Running == fpc = "loop"

\* A public api_* method builds a new params dict and enters _url_get.
StartCall ==
    /\ ~Running
    /\ calls < MaxCalls
    /\ calls' = calls + 1
    /\ start_errors' = transfer_errors
    /\ nb_chunks' = 0
    /\ params_key' = 0
    /\ data_rec' = Unset
    /\ err_arg' = NoArg
    /\ resps' = <<>>
    /\ fpc' = IF LoopCond(0) THEN "loop" ELSE "raisedMaxChunks"
    /\ no_body' = FALSE
    /\ UNCHANGED <<max_retry, max_chunks, transfer_errors, http_status>>
    /\ UNCHANGED <<uvars, svars, tvars, rvars, bvars, wvars>>

\* "if q_params is not None"
SearchEntersMut(q_params) == TRUE
SearchEnters(q_params) == q_params # "None"

\* api_search(q_params): with a body it enters _url_get, with None it raises
\* IncorrectParameter.
ApiSearch ==
    /\ ~Running
    /\ \E q_params \in {"None", "body"} :
        /\ no_body' = (q_params = "None")
        /\ IF SearchEnters(q_params)
           THEN /\ calls < MaxCalls
                /\ calls' = calls + 1
                /\ fpc' = IF LoopCond(0) THEN "loop" ELSE "raisedMaxChunks"
           ELSE /\ calls' = calls
                /\ fpc' = "raisedIncorrectParameter"
    /\ start_errors' = transfer_errors
    /\ nb_chunks' = 0
    /\ params_key' = 0
    /\ data_rec' = Unset
    /\ err_arg' = NoArg
    /\ resps' = <<>>
    /\ UNCHANGED <<max_retry, max_chunks, transfer_errors, http_status>>
    /\ UNCHANGED <<uvars, svars, tvars, rvars, bvars, wvars>>

RequestMut == [key |-> Len(resps), chunk |-> nb_chunks]
\* The request of the iteration: params as urlencoded, in the turn nb_chunks
Request == [key |-> params_key, chunk |-> nb_chunks]

\* The part of an iteration after a 200 response: merge, then continuation.
Consume(ch, chunked, key) ==
    LET merged == MergeChunk(nb_chunks, data_rec, ch)
    IN  IF merged.kind = "crash"
        THEN /\ fpc' = "crashed"
             /\ UNCHANGED <<data_rec, nb_chunks, params_key>>
        ELSE /\ data_rec' = merged
             /\ IF MoreToCome(chunked, key)
                THEN /\ params_key' = key
                     /\ nb_chunks' = nb_chunks + 1
                     /\ fpc' = IF LoopCond(nb_chunks + 1) THEN "loop"
                               ELSE IF ChunksExceeded(nb_chunks + 1)
                                    THEN "raisedMaxChunks" ELSE "returned"
                ELSE /\ params_key' = 0
                     /\ nb_chunks' = nb_chunks
                     /\ fpc' = IF ChunksExceeded(nb_chunks)
                               THEN "raisedMaxChunks" ELSE "returned"

\* One iteration answered with a non-success status.
RespError ==
    /\ Running
    /\ \E st \in BadStatus :
        /\ http_status' = st
        /\ transfer_errors' = NextErrors(transfer_errors)
        /\ resps' = Append(resps, Response(Request, st, FALSE, EmptyBody, FALSE, 0))
        /\ IF BudgetExceeded(transfer_errors')
           THEN fpc' = "raisedHTTP" /\ err_arg' = StatusArg(st)
           ELSE fpc' = "loop" /\ err_arg' = err_arg
    /\ UNCHANGED <<max_retry, max_chunks, nb_chunks, params_key, data_rec,
                   calls, start_errors, no_body>>
    /\ UNCHANGED <<uvars, svars, tvars, rvars, bvars, wvars>>

\* One iteration answered with status 200 and a body that resp.json() rejects.
RespUndecodable ==
    /\ Running
    /\ \E chunked \in BOOLEAN, key \in NextKeys :
        /\ http_status' = 200
        /\ transfer_errors' = NextErrors(transfer_errors)
        /\ resps' = Append(resps, Response(Request, 200, FALSE, EmptyBody, chunked, key))
        /\ IF BudgetExceeded(transfer_errors')
           THEN /\ fpc' = "raisedHTTP"
                /\ err_arg' = JsonArg
                /\ UNCHANGED <<nb_chunks, params_key, data_rec>>
           ELSE /\ err_arg' = err_arg
                /\ Consume(EmptyBody, chunked, key)
    /\ UNCHANGED <<max_retry, max_chunks, calls, start_errors, no_body>>
    /\ UNCHANGED <<uvars, svars, tvars, rvars, bvars, wvars>>

\* One iteration answered with status 200 and a decodable body.
RespChunk ==
    /\ Running
    /\ \E ch \in NextBodies, chunked \in BOOLEAN, key \in NextKeys :
        /\ http_status' = 200
        /\ resps' = Append(resps, Response(Request, 200, TRUE, ch, chunked, key))
        /\ Consume(ch, chunked, key)
    /\ UNCHANGED <<max_retry, max_chunks, transfer_errors, err_arg, calls,
                   start_errors, no_body>>
    /\ UNCHANGED <<uvars, svars, tvars, rvars, bvars, wvars>>

LogEntryMut(errs, status) == [error_count |-> errs, http_status |-> 0]
\* log(site, controler, error_count, http_status): the row inserted in
\* download_log
LogEntry(errs, status) == [error_count |-> errs, http_status |-> status]

\* DownloadVn.store after api_list has returned: the call is logged with
\* the transfer_errors and http_status properties of the client, then stored
DownloadStore ==
    /\ fpc = "returned"
    /\ download_log' = Append(download_log, LogEntry(transfer_errors, http_status))
    /\ fpc' = "idle"
    /\ nb_chunks' = 0
    /\ params_key' = 0
    /\ data_rec' = Unset
    /\ resps' = <<>>
    /\ UNCHANGED <<taxo_groups, watermark, now, upc, uerr, get_since, taxo_list, ti,
                   since, items_dict, updated, deleted, ui, events, cur, wm_before,
                   started_at>>
    /\ UNCHANGED <<max_retry, max_chunks, transfer_errors, http_status, err_arg,
                   calls, start_errors, no_body>>
    /\ UNCHANGED <<svars, tvars, rvars, bvars, wvars>>

FNext == StartCall \/ ApiSearch \/ RespError \/ RespUndecodable \/ RespChunk

\* The fetch client called by DownloadVn.store
\* "for opt_params in opt_params_iter": api_list is called again once the
\* call before it has been logged and stored, or at first
NextList ==
    /\ fpc # "returned"
    /\ StartCall

LNext ==
    \/ NextList \/ RespError \/ RespUndecodable \/ RespChunk
    \/ DownloadStore

\* ------------------------------------------------- differential sync manager
Partitions == 1..MaxPart
Markers == {"updated", "deleted", "merged"}
\* The diff responses: up to MaxDiff items, item i being observation i with
\* any modification_type.
DiffResponses ==
    UNION {{[i \in 1..n |-> [id_sighting |-> i, modification_type |-> m[i]]] :
               m \in [1..n -> Markers]} : n \in 0..MaxDiff}

Event(op, ids) == [op |-> op, ids |-> ids]

ActiveGroupsMut(groups, n) == [i \in 1..n |-> i]
RECURSIVE ActiveGroups(_, _)
\* ids of the taxo_groups 1..n of groups whose access_mode is not 'none', in
\* list order
ActiveGroups(groups, n) ==
    IF n = 0 THEN <<>>
    ELSE IF groups[n] # "none" THEN Append(ActiveGroups(groups, n - 1), n)
    ELSE ActiveGroups(groups, n - 1)

\* id_taxo_group is <<>> for None, <<p>> for one taxo_group (or a list).
ListTaxoGroups(id_taxo_group, groups) ==
    IF id_taxo_group = <<>> THEN ActiveGroups(groups, MaxPart) ELSE id_taxo_group

IncrementGet(p) == watermark[p]

\* "if since is not None"
ValidSinceMut(snc) == TRUE
ValidSince(snc) == snc # 0

\* "Process deletes": the delete_obs calls made for the list deleted
DeleteCallsMut(del) == <<Event("delete_obs", del)>>
DeleteCalls(del) == IF Len(del) > 0 THEN <<Event("delete_obs", del)>> ELSE <<>>

IncrementLogMut(wm, p, ts) == wm
IncrementLog(wm, p, ts) == [wm EXCEPT ![p] = ts]

RECURSIVE ClassifyMut(_, _, _)
ClassifyMut(its, upd, del) ==
    IF its = <<>> THEN <<upd, del, TRUE>>
    ELSE IF Head(its).modification_type = "updated"
         THEN ClassifyMut(Tail(its), Append(upd, Head(its).id_sighting), del)
    ELSE IF Head(its).modification_type = "deleted"
         THEN ClassifyMut(Tail(its), upd, Append(del, Head(its).id_sighting))
    ELSE ClassifyMut(Tail(its), upd, del)
RECURSIVE Classify(_, _, _)
\* The classification loop: <<updated, deleted, ok>>, ok FALSE when an item
\* with an unknown modification_type stopped it.
Classify(its, upd, del) ==
    IF its = <<>> THEN <<upd, del, TRUE>>
    ELSE IF Head(its).modification_type = "updated"
         THEN Classify(Tail(its), Append(upd, Head(its).id_sighting), del)
    ELSE IF Head(its).modification_type = "deleted"
         THEN Classify(Tail(its), upd, Append(del, Head(its).id_sighting))
    ELSE <<upd, del, FALSE>>

\* What a caller sees of one _url_get on the observations client: the
\* counter ends within the budget unless HTTPError is raised, which leaves it
\* one above the budget (or one above its value at the start).
WithinBudget ==
    {e \in transfer_errors..(transfer_errors + max_retry) :
        e = transfer_errors \/ ~BudgetExceeded(e)}
ApiReturns ==
    /\ http_status' = 200
    /\ transfer_errors' \in WithinBudget
ApiRaisesHTTP ==
    /\ http_status' \in BadStatus \cup {200}
    /\ transfer_errors' = (IF BudgetExceeded(transfer_errors) THEN transfer_errors
                           ELSE max_retry) + 1
ApiRaisesMaxChunks ==
    /\ http_status' = 200
    /\ transfer_errors' \in WithinBudget
\* TypeError or KeyError out of the merge that follows a tolerated decoding error
ApiRaisesOther ==
    /\ http_status' = 200
    /\ transfer_errors' \in WithinBudget \ {transfer_errors}

UInit ==
    /\ taxo_groups = <<>>
    /\ watermark \in [Partitions -> {0, 1}]
    /\ download_log = <<>>
    /\ now = 2
    /\ upc = "idle"
    /\ uerr = "none"
    /\ get_since = FALSE
    /\ taxo_list = <<>>
    /\ ti = 0
    /\ since = 0
    /\ items_dict = <<>>
    /\ updated = <<>>
    /\ deleted = <<>>
    /\ ui = 0
    /\ events = <<>>
    /\ cur = 0
    /\ wm_before = watermark
    /\ started_at = 0

\* update(id_taxo_group, since): lines up to the partition loop.
UpdateStart ==
    /\ upc = "idle"
    /\ \E arg \in {<<>>} \cup {<<p>> : p \in Partitions}
                 \cup {<<p, q>> : p \in Partitions, q \in Partitions},
          groups \in [Partitions -> {"none", "full"}],
          s \in {0, 1} :
        /\ taxo_groups' = IF arg = <<>> THEN groups ELSE taxo_groups
        /\ taxo_list' = ListTaxoGroups(arg, groups)
        /\ since' = s
        /\ get_since' = (s = 0)
    /\ ti' = 1
    /\ upc' = "partition"
    /\ UNCHANGED <<watermark, download_log, now, uerr, items_dict,
                   updated, deleted, ui, events, cur, wm_before, started_at>>
    /\ UNCHANGED <<fvars, svars, tvars, rvars, bvars, wvars>>

\* Top of the partition loop: resolve since and advance the watermark.
PartitionBegin ==
    /\ upc = "partition"
    /\ IF ti > Len(taxo_list)
       THEN /\ upc' = "done"
            /\ UNCHANGED <<watermark, now, since, items_dict, updated, deleted,
                           ui, events, cur, wm_before, started_at>>
       ELSE LET taxo == taxo_list[ti]
                snc == IF get_since THEN IncrementGet(taxo) ELSE since
            IN  /\ since' = snc
                /\ updated' = <<>>
                /\ deleted' = <<>>
                /\ items_dict' = <<>>
                /\ ui' = 1
                /\ cur' = taxo
                /\ wm_before' = watermark
                /\ started_at' = now
                /\ IF ValidSince(snc)
                   THEN /\ watermark' = IncrementLog(watermark, taxo, now)
                        /\ now' = now + 1
                        /\ events' = (IF get_since
                                      THEN <<Event("increment_get", <<>>)>>
                                      ELSE <<>>)
                                     \o <<Event("increment_log", <<>>)>>
                        /\ upc' = "diff"
                   ELSE /\ events' = <<Event("increment_get", <<>>)>>
                        /\ upc' = "updates"
                        /\ UNCHANGED <<watermark, now>>
    /\ UNCHANGED <<taxo_groups, download_log, uerr, get_since, taxo_list, ti>>
    /\ UNCHANGED <<fvars, svars, tvars, rvars, bvars, wvars>>

\* api_diff and the classification of its items.
DiffFetch ==
    /\ upc = "diff"
    /\ events' = Append(events, Event("api_diff", <<>>))
    /\ \/ /\ ApiReturns
          /\ \E its \in DiffResponses :
              LET c == Classify(its, <<>>, <<>>)
              IN  /\ items_dict' = its
                  /\ updated' = c[1]
                  /\ deleted' = c[2]
                  /\ IF c[3] THEN upc' = "updates" /\ uerr' = uerr
                     ELSE upc' = "failed" /\ uerr' = "NotImplementedException"
       \/ /\ ApiRaisesHTTP
          /\ upc' = "failed" /\ uerr' = "HTTPError"
          /\ UNCHANGED <<items_dict, updated, deleted>>
       \/ /\ ApiRaisesMaxChunks
          /\ upc' = "failed" /\ uerr' = "MaxChunksError"
          /\ UNCHANGED <<items_dict, updated, deleted>>
       \/ /\ ApiRaisesOther
          /\ upc' = "failed" /\ uerr' = "TypeError"
          /\ UNCHANGED <<items_dict, updated, deleted>>
    /\ UNCHANGED <<taxo_groups, watermark, download_log, now, get_since,
                   taxo_list, ti, since, ui, cur, wm_before, started_at>>
    /\ UNCHANGED <<max_retry, max_chunks>>
    /\ UNCHANGED <<lvars, svars, tvars, rvars, bvars, wvars>>

\* One iteration of "for obs in updated": api_get, log, store.
ProcessUpdate ==
    /\ upc = "updates"
    /\ ui <= Len(updated)
    /\ LET obs == updated[ui]
       IN  \/ /\ ApiReturns
              /\ download_log' = Append(download_log,
                     [error_count |-> transfer_errors', http_status |-> http_status'])
              /\ events' = events \o <<Event("api_get", <<obs>>),
                                       Event("log", <<>>),
                                       Event("store", <<obs>>)>>
              /\ ui' = ui + 1
              /\ UNCHANGED <<upc, uerr>>
           \/ /\ ApiRaisesHTTP
              /\ events' = Append(events, Event("api_get", <<obs>>))
              /\ upc' = "failed" /\ uerr' = "HTTPError"
              /\ UNCHANGED <<download_log, ui>>
           \/ /\ ApiRaisesMaxChunks
              /\ events' = Append(events, Event("api_get", <<obs>>))
              /\ upc' = "failed" /\ uerr' = "MaxChunksError"
              /\ UNCHANGED <<download_log, ui>>
           \/ /\ ApiRaisesOther
              /\ events' = Append(events, Event("api_get", <<obs>>))
              /\ upc' = "failed" /\ uerr' = "TypeError"
              /\ UNCHANGED <<download_log, ui>>
    /\ UNCHANGED <<taxo_groups, watermark, now, get_since, taxo_list, ti, since,
                   items_dict, updated, deleted, cur, wm_before, started_at>>
    /\ UNCHANGED <<max_retry, max_chunks>>
    /\ UNCHANGED <<lvars, svars, tvars, rvars, bvars, wvars>>

\* "Process deletes", then on to the next partition.
ProcessDeletes ==
    /\ upc = "updates"
    /\ ui > Len(updated)
    /\ events' = events \o DeleteCalls(deleted)
    /\ ti' = ti + 1
    /\ upc' = "partition"
    /\ UNCHANGED <<taxo_groups, watermark, download_log, now, uerr, get_since,
                   taxo_list, since, items_dict, updated, deleted, ui, cur,
                   wm_before, started_at>>
    /\ UNCHANGED <<fvars, svars, tvars, rvars, bvars, wvars>>

UNext == UpdateStart \/ PartitionBegin \/ DiffFetch \/ ProcessUpdate \/ ProcessDeletes

\* ---------------------------------------------------- upsert pipeline
Keys == 1..MaxKey
Workers == 1..MaxWorker
\* queue.Queue(maxsize=100000)
maxsize == 100000

\* A sighting as the provider sends it (elem['observers'][0]): insert_date
\* is always there, update_date is 0 when the key is absent.
Sightings == [id_sighting : Keys, insert_date : {1}, update_date : {0, 2}]
NoElem == [id_sighting |-> 0, insert_date |-> 0, update_date |-> 0]
\* self._conn = self._db.connect(): the one connection the store opens
ControlConn == "_conn"
NoConn == "none"
\* ObservationItem(site, metadata, conn, elem, in_proj, out_proj)
ObservationItem(elem, conn) == [kind |-> "item", elem |-> elem, conn |-> conn]
None == [kind |-> "None", elem |-> NoElem, conn |-> NoConn]
\* hasS is FALSE when the dict has no 'sightings' key
NoDict == [hasS |-> TRUE, sightings |-> <<>>, forms |-> <<>>]

Min(a, b) == IF a <= b THEN a ELSE b
\* The items the queue holds before put() blocks: maxsize, scaled to the
\* number of tasks of the model
Capacity == Min(maxsize, MaxQueue)
SeqsOf(S, n) == UNION {[1..k -> S] : k \in 0..n}

RECURSIVE NbFormSightings(_)
\* number of sightings embedded in the forms fs
NbFormSightings(fs) ==
    IF fs = <<>> THEN 0 ELSE Len(Head(fs).sightings) + NbFormSightings(Tail(fs))

\* The forms of a response: form f has '@id' f and at least one sighting,
\* and the forms hold at most c sightings in all.
FormLists(c) ==
    {fs \in UNION {[1..k -> [id : 1..MaxLen,
                              sightings : SeqsOf(Sightings, Min(MaxLen, c)) \ {<<>>}]] :
                      k \in 0..MaxLen} :
        /\ \A f \in 1..Len(fs) : fs[f].id = f
        /\ NbFormSightings(fs) <= c}

\* items_dict['data'] of the observations controler, holding at least one
\* and at most cap sightings in all, or forms and no 'sightings' key.
Responses(cap) ==
    (UNION {{[hasS |-> TRUE, sightings |-> s, forms |-> fs] :
                fs \in FormLists(cap - Len(s))} :
               s \in SeqsOf(Sightings, Min(MaxLen, cap))} \ {NoDict})
    \cup {[hasS |-> FALSE, sightings |-> <<>>, forms |-> fs] :
              fs \in FormLists(cap) \ {<<>>}}

\* The number of sightings of a response, top-level and embedded
NbSightings(d) == Len(d.sightings) + NbFormSightings(d.forms)

\* "Find last update timestamp"
UpdateDate(elem) ==
    IF elem.update_date # 0 THEN elem.update_date ELSE elem.insert_date

\* json.dumps(elem) once coord_x_local and coord_y_local are added
ItemsJson(elem) ==
    [id_sighting |-> elem.id_sighting, insert_date |-> elem.insert_date,
     update_date |-> elem.update_date, coord_local |-> TRUE]

\* select ... where id == id and site == site
Select(table, id) == {r \in table : r.id = id}
\* PrimaryKeyConstraint('id', 'site'): the insert of a present key is refused
PrimaryKeyViolated(table, id) == Select(table, id) # {}
Insert(table, row) == table \cup {row}
\* update ... where id == id and site == site
Update(table, id, row) == {IF r.id = id THEN row ELSE r : r \in table}

\* self._config.site
Site == "vn1"

ObservationRow(elem) ==
    [id |-> elem.id_sighting, site |-> Site, update_ts |-> UpdateDate(elem),
     item |-> ItemsJson(elem)]

\* uuid4() and datetime.now() at the t-th creation of an identity row
UuidRow(obs_id, universal_id, t) ==
    [id |-> obs_id, universal_id |-> universal_id, uuid |-> t, update_ts |-> t]

StoreUuidMut(table, obs_id, universal_id, t) ==
    Insert(table \ Select(table, obs_id), UuidRow(obs_id, universal_id, t))
\* _store_uuid
StoreUuid(table, obs_id, universal_id, t) ==
    IF Select(table, obs_id) = {}
    THEN Insert(table, UuidRow(obs_id, universal_id, t))
    ELSE table

\* forms_data: everything of the form except its sightings
FormsData(form) == [id |-> form.id]
\* _store_form
StoreFormRows(table, forms_data) ==
    IF Select(table, forms_data.id) = {}
    THEN Insert(table, [id |-> forms_data.id, item |-> forms_data])
    ELSE Update(table, forms_data.id, [id |-> forms_data.id, item |-> forms_data])

QueuePutMut(q, item) == <<item>> \o q
\* Queue.put on a FIFO queue
QueuePut(q, item) == Append(q, item)

SInit ==
    /\ observations_json = {}
    /\ uuid_xref = {}
    /\ forms_json = {}
    /\ observations_queue = <<>>
    /\ wpc = [w \in Workers |-> "get"]
    /\ witem = [w \in Workers |-> NoElem]
    /\ wconn = [w \in Workers |-> NoConn]
    /\ wrow = [w \in Workers |-> FALSE]
    /\ spc = "idle"
    /\ obs_dict = NoDict
    /\ xi = 0
    /\ nb_obs = 0
    /\ clock = 0
    /\ nb_uuid = 0
    /\ nb_put = 0
    /\ nb_done = 0
    /\ nb_given = 0

\* store('observations', seq, items_dict): entry of _store_observation
\* len(items_dict['data']['sightings']) raises KeyError when the key is absent
HasSightings(d) == d.hasS

StoreBegin ==
    /\ spc = "idle"
    /\ \E d \in Responses(MaxTask - nb_put) :
        IF HasSightings(d)
        THEN obs_dict' = d /\ nb_given' = NbSightings(d) /\ spc' = "store"
        ELSE obs_dict' = NoDict /\ nb_given' = NbSightings(d) /\ spc' = "KeyError"
    /\ nb_obs' = 0
    /\ deleted' = <<>>
    /\ UNCHANGED <<observations_json, uuid_xref, forms_json, observations_queue,
                   wpc, witem, wconn, wrow, xi, clock, nb_uuid, nb_put, nb_done>>
    /\ UNCHANGED <<taxo_groups, watermark, download_log, now, upc, uerr, get_since,
                   taxo_list, ti, since, items_dict, updated, ui, events, cur,
                   wm_before, started_at>>
    /\ UNCHANGED <<fvars, tvars, rvars, bvars, wvars>>

\* One turn of the loop on the top-level sightings: "Create UUID", then the
\* observation goes to the queue.
PutSighting ==
    /\ spc = "store"
    /\ obs_dict.sightings # <<>>
    /\ Len(observations_queue) < Capacity
    /\ LET elem == Head(obs_dict.sightings)
           uuids == StoreUuid(uuid_xref, elem.id_sighting, elem.id_sighting,
                              clock + 1)
       IN  /\ uuid_xref' = uuids
           /\ clock' = IF uuids = uuid_xref THEN clock ELSE clock + 1
           /\ observations_queue' =
                  QueuePut(observations_queue, ObservationItem(elem, ControlConn))
    /\ obs_dict' = [obs_dict EXCEPT !.sightings = Tail(@)]
    /\ nb_obs' = nb_obs + 1
    /\ nb_uuid' = nb_uuid + 1
    /\ nb_put' = nb_put + 1
    /\ UNCHANGED <<observations_json, forms_json, wpc, witem, wconn, wrow, spc, xi,
                   nb_done, nb_given>>
    /\ UNCHANGED <<fvars, uvars, tvars, rvars, bvars, wvars>>

\* One turn of the loop on the sightings of a form: the observation goes to
\* the queue.
PutFormSighting ==
    /\ spc = "store"
    /\ obs_dict.sightings = <<>>
    /\ obs_dict.forms # <<>>
    /\ Head(obs_dict.forms).sightings # <<>>
    /\ Len(observations_queue) < Capacity
    /\ observations_queue' =
           QueuePut(observations_queue,
                    ObservationItem(Head(Head(obs_dict.forms).sightings), ControlConn))
    /\ obs_dict' = [obs_dict EXCEPT !.forms[1].sightings = Tail(@)]
    /\ nb_obs' = nb_obs + 1
    /\ nb_put' = nb_put + 1
    /\ UNCHANGED <<observations_json, uuid_xref, forms_json, wpc, witem, wconn, wrow,
                   spc, xi, clock, nb_uuid, nb_done, nb_given>>
    /\ UNCHANGED <<fvars, uvars, tvars, rvars, bvars, wvars>>

\* _store_form(forms_data) once the sightings of the form are queued
StoreForm ==
    /\ spc = "store"
    /\ obs_dict.sightings = <<>>
    /\ obs_dict.forms # <<>>
    /\ Head(obs_dict.forms).sightings = <<>>
    /\ forms_json' = StoreFormRows(forms_json, FormsData(Head(obs_dict.forms)))
    /\ obs_dict' = [obs_dict EXCEPT !.forms = Tail(@)]
    /\ UNCHANGED <<observations_json, uuid_xref, observations_queue, wpc, witem, wconn,
                   wrow, spc, xi, nb_obs, clock, nb_uuid, nb_put, nb_done, nb_given>>
    /\ UNCHANGED <<fvars, uvars, tvars, rvars, bvars, wvars>>

\* _store_observation returns nb_obs
StoreReturn ==
    /\ spc = "store"
    /\ obs_dict = NoDict
    /\ spc' = "idle"
    /\ nb_obs' = 0
    /\ nb_given' = 0
    /\ UNCHANGED <<observations_json, uuid_xref, forms_json, observations_queue,
                   wpc, witem, wconn, wrow, obs_dict, xi, clock, nb_uuid, nb_put, nb_done>>
    /\ UNCHANGED <<fvars, uvars, tvars, rvars, bvars, wvars>>

DeleteWhereMut(table, obs) == Select(table, obs)
\* delete().where(and_(id == obs, site == self._config.site)): the rows removed
DeleteWhere(table, obs) == {r \in table : r.id = obs /\ r.site = Site}

\* update(): "if len(deleted) > 0: self._backend.delete_obs(deleted)", with
\* one id in the list; the store call of the next partition starts a new list
DeleteObs ==
    /\ spc = "idle"
    /\ \E obs \in Keys :
        /\ Select(observations_json, obs) # {}
        /\ observations_json' = observations_json \ DeleteWhere(observations_json, obs)
        /\ deleted' = <<obs>>
    /\ UNCHANGED <<uuid_xref, forms_json, observations_queue, wpc, witem, wconn, wrow,
                   spc, obs_dict, xi, nb_obs, clock, nb_uuid, nb_put, nb_done, nb_given>>
    /\ UNCHANGED <<taxo_groups, watermark, download_log, now, upc, uerr, get_since,
                   taxo_list, ti, since, items_dict, updated, ui, events, cur,
                   wm_before, started_at>>
    /\ UNCHANGED <<fvars, tvars, rvars, bvars, wvars>>

\* __exit__: "for i in range(self._num_worker_threads): put(None)"
ExitPut ==
    /\ spc \in {"idle", "exit", "KeyError"}
    /\ xi < MaxWorker
    /\ Len(observations_queue) < Capacity
    /\ observations_queue' = QueuePut(observations_queue, None)
    /\ IF xi + 1 < MaxWorker
       THEN spc' = "exit" /\ xi' = xi + 1
       ELSE spc' = "join" /\ xi' = 1
    /\ UNCHANGED <<observations_json, uuid_xref, forms_json, wpc, witem, wconn, wrow,
                   obs_dict, nb_obs, clock, nb_uuid, nb_put, nb_done, nb_given>>
    /\ UNCHANGED <<fvars, uvars, tvars, rvars, bvars, wvars>>

StoppedMut(w) == TRUE
StoppedExitedMut(w) == wpc[w] = "exited"
Stopped(w) == wpc[w] \in {"exited", "raised"}

\* __exit__: "for t in self._observations_threads: t.join()"
ExitJoin ==
    /\ spc = "join"
    /\ xi <= MaxWorker
    /\ Stopped(xi)
    /\ xi' = xi + 1
    /\ UNCHANGED <<observations_json, uuid_xref, forms_json, observations_queue,
                   wpc, witem, wconn, wrow, spc, obs_dict, nb_obs, clock, nb_uuid, nb_put,
                   nb_done, nb_given>>
    /\ UNCHANGED <<fvars, uvars, tvars, rvars, bvars, wvars>>

\* __exit__: self._conn.close()
ExitClose ==
    /\ spc = "join"
    /\ xi > MaxWorker
    /\ spc' = "closed"
    /\ UNCHANGED <<observations_json, uuid_xref, forms_json, observations_queue,
                   wpc, witem, wconn, wrow, obs_dict, xi, nb_obs, clock, nb_uuid, nb_put,
                   nb_done, nb_given>>
    /\ UNCHANGED <<fvars, uvars, tvars, rvars, bvars, wvars>>

\* observation_worker: item = q.get(), "if item is None: break"
WorkerGet ==
    /\ \E w \in Workers :
        /\ wpc[w] = "get"
        /\ observations_queue # <<>>
        /\ observations_queue' = Tail(observations_queue)
        /\ IF Head(observations_queue) = None
           THEN wpc' = [wpc EXCEPT ![w] = "exited"] /\ UNCHANGED <<witem, wconn>>
           ELSE /\ wpc' = [wpc EXCEPT ![w] = "select"]
                /\ witem' = [witem EXCEPT ![w] = Head(observations_queue).elem]
                /\ wconn' = [wconn EXCEPT ![w] = Head(observations_queue).conn]
    /\ UNCHANGED <<observations_json, uuid_xref, forms_json, wrow, spc, obs_dict,
                   xi, nb_obs, clock, nb_uuid, nb_put, nb_done, nb_given>>
    /\ UNCHANGED <<fvars, uvars, tvars, rvars, bvars, wvars>>

\* store_1_observation: the select and row = result.fetchone()
WorkerSelect ==
    /\ \E w \in Workers :
        /\ wpc[w] = "select"
        /\ wrow' = [wrow EXCEPT
                        ![w] = Select(observations_json, witem[w].id_sighting) # {}]
        /\ wpc' = [wpc EXCEPT ![w] = "execute"]
    /\ UNCHANGED <<observations_json, uuid_xref, forms_json, observations_queue,
                   witem, wconn, spc, obs_dict, xi, nb_obs, clock, nb_uuid, nb_put, nb_done, nb_given>>
    /\ UNCHANGED <<fvars, uvars, tvars, rvars, bvars, wvars>>

\* store_1_observation: the insert or the update, then q.task_done(); a
\* refused insert raises out of observation_worker and ends the thread.
WorkerExecute ==
    /\ \E w \in Workers :
        /\ wpc[w] = "execute"
        /\ LET elem == witem[w]
               id == elem.id_sighting
           IN  IF ~wrow[w] /\ PrimaryKeyViolated(observations_json, id)
               THEN /\ wpc' = [wpc EXCEPT ![w] = "raised"]
                    /\ UNCHANGED <<observations_json, nb_done>>
               ELSE /\ observations_json' =
                           (IF ~wrow[w]
                            THEN Insert(observations_json, ObservationRow(elem))
                            ELSE Update(observations_json, id, ObservationRow(elem)))
                    /\ wpc' = [wpc EXCEPT ![w] = "get"]
                    /\ nb_done' = nb_done + 1
        /\ witem' = [witem EXCEPT ![w] = NoElem]
        /\ wconn' = [wconn EXCEPT ![w] = NoConn]
        /\ wrow' = [wrow EXCEPT ![w] = FALSE]
    /\ UNCHANGED <<uuid_xref, forms_json, observations_queue, spc, obs_dict, xi,
                   nb_obs, clock, nb_uuid, nb_put, nb_given>>
    /\ UNCHANGED <<fvars, uvars, tvars, rvars, bvars, wvars>>

SNext ==
    \/ StoreBegin \/ PutSighting \/ PutFormSighting \/ StoreForm \/ StoreReturn
    \/ DeleteObs \/ ExitPut \/ ExitJoin \/ ExitClose
    \/ WorkerGet \/ WorkerSelect \/ WorkerExecute

\* ------------------------------------------------- synchronous upserts
\* One simple and one geometry controler stand for the others of their type.
SyncControlers == {"taxo_groups", "places"}
\* self._table_defs[controler]['type']
TableType(controler) ==
    IF controler = "observations" THEN "observation"
    ELSE IF controler = "places" THEN "geometry"
    ELSE "simple"

\* An element of items_dict['data'] as the provider sends it
Elems == [id : Keys, body : {1, 2}, coord_local : {FALSE}]
\* _store_geometry: coord_x_local and coord_y_local are added to the element
Reprojected(elem) == [elem EXCEPT !.coord_local = TRUE]
\* the row _store_simple writes for elem
SimpleRow(elem) == [id |-> elem.id, item |-> elem]

UpsertMut(table, id, row) == Insert(table, row)
\* The look-up, then the insert when no row is found and the update when one is
Upsert(table, id, row) ==
    IF Select(table, id) = {} THEN Insert(table, row) ELSE Update(table, id, row)

UpsertAllMut(table, rows) ==
    IF rows = <<>> THEN table ELSE Upsert(table, Head(rows).id, Head(rows))
RECURSIVE UpsertAll(_, _)
\* "for elem in items_dict['data']" over the rows to write
UpsertAll(table, rows) ==
    IF rows = <<>> THEN table
    ELSE UpsertAll(Upsert(table, Head(rows).id, Head(rows)), Tail(rows))

\* "return len(items_dict['data'])"
NbItem(data) == Len(data)

NoStore == [controler |-> "none", rows |-> <<>>, before |-> {}, nb_item |-> 0]

\* The stores of one behaviour go to one controler: a store touches the
\* table of its controler alone.
SameControler(controler) == last_store.controler \in {"none", controler}

TInit ==
    /\ json_tables = [c \in SyncControlers |-> {}]
    /\ last_store = NoStore

\* store(controler, seq, items_dict) for a controler of type simple
StoreSimple ==
    /\ spc = "idle"
    /\ \E controler \in SyncControlers, data \in SeqsOf(Elems, MaxData) :
        /\ TableType(controler) = "simple"
        /\ SameControler(controler)
        /\ LET rows == [i \in 1..Len(data) |-> SimpleRow(data[i])]
           IN  /\ json_tables' = [json_tables EXCEPT
                                     ![controler] = UpsertAll(@, rows)]
               /\ last_store' = [controler |-> controler, rows |-> rows,
                                 before |-> json_tables[controler],
                                 nb_item |-> NbItem(data)]
    /\ UNCHANGED <<fvars, uvars, svars, rvars, bvars, wvars>>

\* store(controler, seq, items_dict) for a controler of type geometry
StoreGeometry ==
    /\ spc = "idle"
    /\ \E controler \in SyncControlers, data \in SeqsOf(Elems, MaxData) :
        /\ TableType(controler) = "geometry"
        /\ SameControler(controler)
        /\ LET rows == [i \in 1..Len(data) |-> SimpleRow(Reprojected(data[i]))]
           IN  /\ json_tables' = [json_tables EXCEPT
                                     ![controler] = UpsertAll(@, rows)]
               /\ last_store' = [controler |-> controler, rows |-> rows,
                                 before |-> json_tables[controler],
                                 nb_item |-> NbItem(data)]
    /\ UNCHANGED <<fvars, uvars, svars, rvars, bvars, wvars>>

\* store_1_observation(item) run from its select to its insert or update
\* with no other statement on the table in between
Store1Observation ==
    /\ spc = "idle"
    /\ SameControler("observations")
    /\ \E elem \in Sightings :
        /\ observations_json' =
               Upsert(observations_json, elem.id_sighting, ObservationRow(elem))
        /\ last_store' = [controler |-> "observations",
                          rows |-> <<ObservationRow(elem)>>,
                          before |-> observations_json,
                          nb_item |-> 1]
    /\ UNCHANGED <<uuid_xref, forms_json, observations_queue, wpc, witem, wconn, wrow,
                   spc, obs_dict, xi, nb_obs, clock, nb_uuid, nb_put, nb_done, nb_given>>
    /\ UNCHANGED json_tables
    /\ UNCHANGED <<fvars, uvars, rvars, bvars, wvars>>

TNext == StoreSimple \/ StoreGeometry \/ Store1Observation

\* ------------------------------------------------------ rate regulator
\* PID(kp=0.0, ki=0.003, kd=0.0, setpoint=10000, output_limits=(10, 2000)),
\* and delta_days = 15. Window sizes are held in thousandths of a day, where
\* ki is 3.
Scale == 1000
Ki == 3
Setpoint == 10000
OutputMin == 10
OutputMax == 2000
InitialDelta == 15

\* The record counts store() returns for a window: none, a little under the
\* setpoint, the setpoint, far above it.
Counts == {0, 9900, 10000, 30000}
FarAbove == {c \in Counts : c >= 2 * Setpoint}

\* Saturation to the output limits, in thousandths of a day
Clamp(x) ==
    IF x < OutputMin * Scale THEN OutputMin * Scale
    ELSE IF x > OutputMax * Scale THEN OutputMax * Scale
    ELSE x

\* The integral term of a new PID: no error is accumulated yet
PidNew == 0
\* pid(input): the integral term after the call, which is the output as kp
\* and kd are 0
PidCall(integral, input) == Clamp(integral + Ki * (Setpoint - input))

DeltaDaysMut(output) == InitialDelta
DeltaDaysThousandths(output) == output
\* delta_days = int(pid(nb_obs))
DeltaDays(output) == output \div Scale

RIdle ==
    /\ rpc = "idle"
    /\ pid_integral = PidNew
    /\ delta_days = 0
    /\ seq = 0
    /\ law = 0
    /\ fed = {}

\* A taxo_group's walk begins: a new PID, delta_days = 15
WalkBegin ==
    /\ rpc \in {"idle", "walk"}
    /\ rpc' = "walk"
    /\ pid_integral' = PidNew
    /\ delta_days' = InitialDelta
    /\ seq' = 1
    /\ law' = InitialDelta * Scale
    /\ fed' = {}
    /\ UNCHANGED <<fvars, uvars, svars, tvars, bvars, wvars>>

\* One turn of "while start_date > min_date": the window of delta_days is
\* searched and stored, store() returns the count nb_obs, the PID gives the next size.
Window ==
    /\ rpc = "walk"
    /\ seq <= MaxFeed
    /\ \E count \in Counts :
        /\ pid_integral' = PidCall(pid_integral, count)
        /\ delta_days' = DeltaDays(PidCall(pid_integral, count))
        /\ law' = Clamp(law + Ki * (Setpoint - count))
        /\ fed' = fed \cup {count}
    /\ seq' = seq + 1
    /\ UNCHANGED rpc
    /\ UNCHANGED <<fvars, uvars, svars, tvars, bvars, wvars>>

RNext == WalkBegin \/ Window

\* ------------------------------------------------------- backfill walk
\* Observations.store(id_taxo_group, method='search'). Dates are whole days
\* counted from min_date = datetime(1901, 1, 1).
MinDate == 0

\* "while start_date > min_date"
WalkCondMut(date) == date >= MinDate
WalkCond(date) == date > MinDate

\* start_date = end_date - timedelta(days=delta_days)
StartDateMut(date, days) == date
StartDate(date, days) == date - days

BIdle ==
    /\ start_date = 0
    /\ end_date = 0
    /\ walked = {}

\* An Observations object on a day after min_date
BInit ==
    /\ taxo_groups = <<>>
    /\ watermark = [p \in Partitions |-> 0]
    /\ download_log = <<>>
    /\ now \in 1..MaxDays
    /\ upc = "idle"
    /\ uerr = "none"
    /\ get_since = FALSE
    /\ taxo_list = <<>>
    /\ ti = 0
    /\ since = 0
    /\ items_dict = <<>>
    /\ updated = <<>>
    /\ deleted = <<>>
    /\ ui = 0
    /\ events = <<>>
    /\ cur = 0
    /\ wm_before = watermark
    /\ started_at = 0

\* store(): the list of taxo_groups to process
StoreStart ==
    /\ rpc = "idle"
    /\ \E arg \in {<<>>} \cup {<<p>> : p \in Partitions},
          groups \in [Partitions -> {"none", "full"}] :
        /\ taxo_groups' = IF arg = <<>> THEN groups ELSE taxo_groups
        /\ taxo_list' = ListTaxoGroups(arg, groups)
    /\ ti' = 1
    /\ rpc' = "partition"
    /\ UNCHANGED <<watermark, download_log, now, upc, uerr, get_since, since,
                   items_dict, updated, deleted, ui, events, cur, wm_before,
                   started_at>>
    /\ UNCHANGED <<pid_integral, delta_days, seq, law, fed>>
    /\ UNCHANGED <<fvars, svars, tvars, bvars, wvars>>

\* _store_search(taxo) up to the while loop: the watermark is written, the
\* walk starts from now with a new PID and delta_days = 15.
SearchBegin ==
    /\ rpc = "partition"
    /\ ti <= Len(taxo_list)
    /\ cur' = taxo_list[ti]
    /\ watermark' = IncrementLog(watermark, taxo_list[ti], now)
    /\ events' = <<Event("increment_log", <<>>)>>
    /\ end_date' = now
    /\ start_date' = now
    /\ seq' = 1
    /\ pid_integral' = PidNew
    /\ delta_days' = InitialDelta
    /\ law' = InitialDelta * Scale
    /\ fed' = {}
    /\ rpc' = "walk"
    /\ UNCHANGED <<taxo_groups, download_log, now, upc, uerr, get_since,
                   taxo_list, ti, since, items_dict, updated, deleted, ui,
                   wm_before, started_at>>
    /\ UNCHANGED walked
    /\ UNCHANGED <<fvars, svars, tvars, wvars>>

\* One turn of the while loop in which api_search and store return
SearchWindow ==
    /\ rpc = "walk"
    /\ WalkCond(start_date)
    /\ \E count \in Counts :
        /\ pid_integral' = PidCall(pid_integral, count)
        /\ delta_days' = DeltaDays(PidCall(pid_integral, count))
        /\ law' = Clamp(law + Ki * (Setpoint - count))
        /\ fed' = fed \cup {count}
    /\ start_date' = StartDate(end_date, delta_days)
    /\ end_date' = StartDate(end_date, delta_days)
    /\ events' = events \o <<Event("api_search",
                                   <<StartDate(end_date, delta_days), end_date>>),
                             Event("store", <<seq>>)>>
    /\ seq' = seq + 1
    /\ UNCHANGED <<taxo_groups, watermark, download_log, now, upc, uerr,
                   get_since, taxo_list, ti, since, items_dict, updated,
                   deleted, ui, cur, wm_before, started_at>>
    /\ UNCHANGED <<rpc, walked>>
    /\ UNCHANGED <<fvars, svars, tvars, wvars>>

\* One turn of the while loop in which api_search raises: nothing catches it
SearchRaises ==
    /\ rpc = "walk"
    /\ WalkCond(start_date)
    /\ \E e \in {"HTTPError", "MaxChunksError"} : uerr' = e
    /\ start_date' = StartDate(end_date, delta_days)
    /\ events' = Append(events, Event("api_search",
                                      <<StartDate(end_date, delta_days), end_date>>))
    /\ rpc' = "failed"
    /\ UNCHANGED <<taxo_groups, watermark, download_log, now, upc,
                   get_since, taxo_list, ti, since, items_dict, updated,
                   deleted, ui, cur, wm_before, started_at>>
    /\ UNCHANGED <<pid_integral, delta_days, seq, law, fed>>
    /\ UNCHANGED <<end_date, walked>>
    /\ UNCHANGED <<fvars, svars, tvars, wvars>>

\* The while loop ends, _store_search returns; the clock may have reached
\* the next day.
SearchEnd ==
    /\ rpc = "walk"
    /\ ~WalkCond(start_date)
    /\ walked' = walked \cup {cur}
    /\ ti' = ti + 1
    /\ now' \in {now, Min(now + 1, MaxDays)}
    /\ rpc' = "partition"
    /\ UNCHANGED <<taxo_groups, watermark, download_log, upc, uerr,
                   get_since, taxo_list, since, items_dict, updated,
                   deleted, ui, events, cur, wm_before, started_at>>
    /\ UNCHANGED <<pid_integral, delta_days, seq, law, fed>>
    /\ UNCHANGED <<start_date, end_date>>
    /\ UNCHANGED <<fvars, svars, tvars, wvars>>

\* store() returns
StoreEnd ==
    /\ rpc = "partition"
    /\ ti > Len(taxo_list)
    /\ rpc' = "done"
    /\ UNCHANGED <<pid_integral, delta_days, seq, law, fed>>
    /\ UNCHANGED <<fvars, uvars, svars, tvars, bvars, wvars>>

BNext ==
    \/ StoreStart
    \/ SearchBegin
    \/ SearchWindow
    \/ SearchRaises
    \/ SearchEnd
    \/ StoreEnd

\* ------------------------------------------------------ watermark table
\* StorePostgresql.increment_log and increment_get. The table has a serial
\* id as its only key, so it is a bag of rows (site, taxo_group, last_ts).
Sites == {"vn1", "vn2"}
Stamps == {1, 2}
WKeys == Sites \X Partitions

IncrementRow(site, taxo_group, last_ts) ==
    [site |-> site, taxo_group |-> taxo_group, last_ts |-> last_ts]

\* The rows that "where taxo_group == taxo_group and site == site" selects
IncrementRows(table, site, taxo_group) ==
    {r \in BagToSet(table) : r.site = site /\ r.taxo_group = taxo_group}

\* insert().values(taxo_group, site, last_ts)
IncrementInsert(table, site, taxo_group, last_ts) ==
    table (+) SetToBag({IncrementRow(site, taxo_group, last_ts)})

\* update().where(...).values(taxo_group, site, last_ts): every selected row
\* gets last_ts
IncrementUpdate(table, site, taxo_group, last_ts) ==
    LET sel == IncrementRows(table, site, taxo_group)
        kept == [r \in BagToSet(table) \ sel |-> table[r]]
        nb == BagCardinality([r \in sel |-> table[r]])
    IN  kept (+) [r \in {IncrementRow(site, taxo_group, last_ts)} |-> nb]

IncrementLogStmtMut(table, site, taxo_group, last_ts) ==
    IncrementInsert(table, site, taxo_group, last_ts)
\* increment_log: "if row is None" insert, else update
IncrementLogStmt(table, site, taxo_group, last_ts) ==
    IF IncrementRows(table, site, taxo_group) = {}
    THEN IncrementInsert(table, site, taxo_group, last_ts)
    ELSE IncrementUpdate(table, site, taxo_group, last_ts)

\* increment_get: what fetchone() can give, 0 for None
IncrementGetStmt(table, site, taxo_group) ==
    IF IncrementRows(table, site, taxo_group) = {} THEN {0}
    ELSE {r.last_ts : r \in IncrementRows(table, site, taxo_group)}

NoGet == [site |-> "none", taxo_group |-> 0, last_ts |-> 0]

WIdle ==
    /\ increment_log = EmptyBag
    /\ last_logged = [k \in WKeys |-> 0]
    /\ got = NoGet

IncrementLogCall ==
    /\ \E site \in Sites, taxo_group \in Partitions, last_ts \in Stamps :
        /\ increment_log' = IncrementLogStmt(increment_log, site, taxo_group, last_ts)
        /\ last_logged' = [last_logged EXCEPT ![<<site, taxo_group>>] = last_ts]
    /\ UNCHANGED got
    /\ UNCHANGED <<fvars, uvars, svars, tvars, rvars, bvars>>

IncrementGetCall ==
    /\ \E site \in Sites, taxo_group \in Partitions :
        \E ts \in IncrementGetStmt(increment_log, site, taxo_group) :
            got' = IncrementRow(site, taxo_group, ts)
    /\ UNCHANGED <<increment_log, last_logged>>
    /\ UNCHANGED <<fvars, uvars, svars, tvars, rvars, bvars>>

WNext == IncrementLogCall \/ IncrementGetCall

\* ----------------------------------------------------------- delete_obs
RECURSIVE DeleteAll(_, _)
\* "for obs in obs_list": the table after the deletes
DeleteAll(table, obs_list) ==
    IF obs_list = <<>> THEN table
    ELSE DeleteAll(table \ DeleteWhere(table, Head(obs_list)), Tail(obs_list))

RECURSIVE NbDelete(_, _)
\* "nb_delete += nd.rowcount" over the loop
NbDelete(table, obs_list) ==
    IF obs_list = <<>> THEN 0
    ELSE Cardinality(DeleteWhere(table, Head(obs_list)))
         + NbDelete(table \ DeleteWhere(table, Head(obs_list)), Tail(obs_list))

\* The rows a table observations_json can hold: one at most for an id and a
\* site
StoredRows ==
    {[ObservationRow(elem) EXCEPT !.site = site] :
        elem \in {e \in Sightings : e.update_date = 0}, site \in Sites}

\* A store with observations of two sites, their identities, a watermark and
\* an audit entry
DInit ==
    /\ observations_json \in SUBSET StoredRows
    /\ uuid_xref = {UuidRow(k, k, k) : k \in Keys}
    /\ forms_json = {}
    /\ observations_queue = <<>>
    /\ wpc = [w \in Workers |-> "get"]
    /\ witem = [w \in Workers |-> NoElem]
    /\ wconn = [w \in Workers |-> NoConn]
    /\ wrow = [w \in Workers |-> FALSE]
    /\ spc = "idle"
    /\ obs_dict = NoDict
    /\ xi = 0
    /\ nb_obs = 0
    /\ clock = MaxKey
    /\ nb_uuid = 0
    /\ nb_put = 0
    /\ nb_done = 0
    /\ nb_given = 0
    /\ increment_log = SetToBag({IncrementRow(Site, 1, 1)})
    /\ last_logged = [k \in WKeys |-> IF k = <<Site, 1>> THEN 1 ELSE 0]
    /\ got = NoGet

\* delete_obs(obs_list) with no write task in the queue
DeleteObsList ==
    /\ spc = "idle"
    /\ \E obs_list \in SeqsOf(Keys, MaxData) :
        /\ observations_json' = DeleteAll(observations_json, obs_list)
        /\ last_store' = [controler |-> "delete_obs", rows |-> obs_list,
                          before |-> observations_json,
                          nb_item |-> NbDelete(observations_json, obs_list)]
    /\ UNCHANGED <<uuid_xref, forms_json, observations_queue, wpc, witem, wconn, wrow,
                   spc, obs_dict, xi, nb_obs, clock, nb_uuid, nb_put, nb_done, nb_given>>
    /\ UNCHANGED json_tables
    /\ UNCHANGED <<fvars, uvars, rvars, bvars, wvars>>

DNext == DeleteObsList

\* ------------------------------------------------------------- shutdown
RECURSIVE StoreUuids(_, _)
\* The identity rows after the store of the sightings of q
StoreUuids(table, q) ==
    IF q = <<>> THEN table
    ELSE StoreUuids(StoreUuid(table, Head(q).id_sighting, Head(q).id_sighting,
                              Cardinality(table) + 1), Tail(q))

\* The store after calls of store() that put some sightings, up to a full
\* queue, which no worker has taken yet
XInit ==
    /\ \E q \in SeqsOf(Sightings, Capacity) :
        /\ observations_queue = [i \in 1..Len(q) |-> ObservationItem(q[i], ControlConn)]
        /\ uuid_xref = StoreUuids({}, q)
        /\ clock = Cardinality(StoreUuids({}, q))
        /\ nb_obs = Len(q)
        /\ nb_uuid = Len(q)
        /\ nb_put = Len(q)
        /\ nb_given = Len(q)
    /\ observations_json = {}
    /\ forms_json = {}
    /\ wpc = [w \in Workers |-> "get"]
    /\ witem = [w \in Workers |-> NoElem]
    /\ wconn = [w \in Workers |-> NoConn]
    /\ wrow = [w \in Workers |-> FALSE]
    /\ spc = "idle"
    /\ obs_dict = NoDict
    /\ xi = 0
    /\ nb_done = 0

\* __exit__ and the worker threads
XNext ==
    \/ ExitPut \/ ExitJoin \/ ExitClose
    \/ WorkerGet \/ WorkerSelect \/ WorkerExecute

\* --------------------------------------------------------- specifications
FIdle ==
    /\ max_retry = SyncRetry
    /\ max_chunks = MaxChunks
    /\ transfer_errors = 0
    /\ http_status = 0
    /\ fpc = "idle"
    /\ nb_chunks = 0
    /\ params_key = 0
    /\ data_rec = Unset
    /\ err_arg = NoArg
    /\ calls = 0
    /\ start_errors = 0
    /\ resps = <<>>
    /\ no_body = FALSE

UIdle ==
    /\ taxo_groups = <<>>
    /\ watermark = [p \in Partitions |-> 0]
    /\ download_log = <<>>
    /\ now = 2
    /\ upc = "idle"
    /\ uerr = "none"
    /\ get_since = FALSE
    /\ taxo_list = <<>>
    /\ ti = 0
    /\ since = 0
    /\ items_dict = <<>>
    /\ updated = <<>>
    /\ deleted = <<>>
    /\ ui = 0
    /\ events = <<>>
    /\ cur = 0
    /\ wm_before = watermark
    /\ started_at = 0

InitFetch == FInit /\ UIdle /\ SInit /\ TInit /\ RIdle /\ BIdle /\ WIdle
SpecFetch == InitFetch /\ [][FNext]_vars

InitLogged == FInit /\ UIdle /\ SInit /\ TInit /\ RIdle /\ BIdle /\ WIdle
SpecLogged == InitLogged /\ [][LNext]_vars

InitUpdate == FIdle /\ UInit /\ SInit /\ TInit /\ RIdle /\ BIdle /\ WIdle

InitStore == FIdle /\ UIdle /\ SInit /\ TInit /\ RIdle /\ BIdle /\ WIdle
SpecStore == InitStore /\ [][SNext]_vars

InitUpsert == FIdle /\ UIdle /\ SInit /\ TInit /\ RIdle /\ BIdle /\ WIdle
SpecUpsert == InitUpsert /\ [][TNext]_vars

InitRegulator == FIdle /\ UIdle /\ SInit /\ TInit /\ RIdle /\ BIdle /\ WIdle
SpecRegulator == InitRegulator /\ [][RNext]_vars
SpecUpdate == InitUpdate /\ [][UNext]_vars

InitWatermark == FIdle /\ UIdle /\ SInit /\ TInit /\ RIdle /\ BIdle /\ WIdle
SpecWatermark == InitWatermark /\ [][WNext]_vars

InitShutdown == FIdle /\ UIdle /\ XInit /\ TInit /\ RIdle /\ BIdle /\ WIdle
SpecShutdown == InitShutdown /\ [][XNext]_vars
\* __exit__ runs to its end when nothing blocks it, and the worker threads
\* run as long as they have something to do.
SpecShutdownFair ==
    SpecShutdown /\ WF_vars(ExitPut \/ ExitJoin \/ ExitClose)
                 /\ WF_vars(WorkerGet \/ WorkerSelect \/ WorkerExecute)

InitDelete == FIdle /\ UIdle /\ DInit /\ TInit /\ RIdle /\ BIdle
SpecDelete == InitDelete /\ [][DNext]_vars

InitBackfill == FIdle /\ BInit /\ SInit /\ TInit /\ RIdle /\ BIdle /\ WIdle
SpecBackfill == InitBackfill /\ [][BNext]_vars
\* The control thread runs store() to its end
SpecBackfillFair == SpecBackfill /\ WF_vars(BNext)

\* ------------------------------------------------- properties: fetch client
AllStatusFailures ==
    \A i \in 1..Len(resps) : resps[i].status # 200
SameRequests ==
    \A i \in 1..Len(resps) : resps[i].req = resps[1].req
Max(a, b) == IF a >= b THEN a ELSE b

\* C1: on a client whose error counter is 0 at the start of a fetch, a fetch
\* that gets only non-success responses re-issues the same request after each
\* of the first max_retry failures and raises HTTPError on failure number
\* max_retry + 1, carrying the status code of that last response.
C1_ErrorBudgetFresh ==
    (start_errors = 0 /\ resps # <<>> /\ AllStatusFailures) =>
        /\ Len(resps) <= max_retry + 1
        /\ SameRequests
        /\ Len(resps) <= max_retry => fpc = "loop" /\ Request = resps[1].req
        /\ Len(resps) = max_retry + 1 =>
              /\ fpc = "raisedHTTP"
              /\ err_arg = [kind |-> "status", code |-> Last(resps).status]
C1_Witness ==
    /\ start_errors = 0 /\ max_retry >= 2 /\ AllStatusFailures
    /\ Len(resps) = max_retry + 1 /\ fpc = "raisedHTTP"
    /\ resps[1].status # Last(resps).status

\* The budget of the running fetch, started at counter value start_errors.
C2_Budget ==
    LET k == Len(Failures)
        tolerated == Max(0, max_retry - start_errors)
    IN  /\ transfer_errors = start_errors + k
        /\ k <= tolerated + 1
        /\ (k >= 1 /\ k <= tolerated) => fpc # "raisedHTTP"
        /\ k = tolerated + 1 => fpc = "raisedHTTP"
        /\ fpc = "raisedHTTP" => k = tolerated + 1 /\ IsFailure(Last(resps))
        /\ (start_errors > max_retry /\ k >= 1) => k = 1 /\ fpc = "raisedHTTP"
\* C2: the error counter never decreases, it counts every failure since the
\* client was built, and a fetch started at counter value E raises HTTPError
\* exactly on its failure number max(0, max_retry - E) + 1; once the counter
\* exceeds max_retry the first failed response of a fetch raises.
C2_CumulativeCounter ==
    /\ [][transfer_errors' >= transfer_errors]_vars
    /\ []C2_Budget
C2_Witness ==
    /\ calls >= 2 /\ start_errors >= 1 /\ start_errors < max_retry
    /\ Len(Failures) = max_retry - start_errors + 1
    /\ fpc = "raisedHTTP"

Continues(r) == r.chunked /\ r.key # 0

\* C3: MaxChunksError is raised if and only if chunk number max_chunks of the
\* fetch was consumed and still signalled continuation; a fetch returns only
\* on a chunk that does not signal continuation, at most the max_chunks-th;
\* failed responses do not count toward max_chunks.
C3_PaginationCeiling ==
    /\ fpc = "raisedMaxChunks" =>
          Len(Chunks) = max_chunks /\ Continues(Last(Chunks))
    /\ (Len(Chunks) = max_chunks /\ Continues(Last(Chunks)) /\ IsChunk(Last(resps)))
          => fpc \in {"raisedMaxChunks", "crashed"}
    /\ fpc = "returned" =>
          Len(Chunks) <= max_chunks /\ (Chunks # <<>> => ~Continues(Last(Chunks)))
    /\ nb_chunks <= Len(Chunks)

HasField(log, fld) ==
    \E i \in 1..Len(log) : IF fld = "s" THEN log[i].body.hasS ELSE log[i].body.hasF
\* The chunks of log merged by name: each list is the concatenation of the
\* chunks' lists of that name, in arrival order.
Concatenated(log) ==
    [kind |-> log[1].body.kind,
     lst |-> Flat(log, "lst"),
     hasS |-> HasField(log, "s"), s |-> Flat(log, "s"),
     hasF |-> HasField(log, "f"), f |-> Flat(log, "f")]

\* C4: a fetch that returns after k >= 1 chunks returns, under each list name,
\* the concatenation of the chunks' lists in arrival order; for k = 1 it
\* returns the chunk itself.
C4_ChunkMerge ==
    (fpc = "returned" /\ Chunks # <<>>) =>
        /\ data_rec = Concatenated(Chunks)
        /\ Len(Chunks) = 1 => data_rec = Chunks[1].body
C4_Witness ==
    /\ fpc = "returned" /\ Len(Chunks) = 2
    /\ Chunks[1].body.kind = "obs"
    /\ Chunks[1].body.hasS /\ ~Chunks[1].body.hasF /\ Len(Chunks[1].body.s) = 1
    /\ Chunks[2].body.hasF /\ Len(Chunks[2].body.f) = 1
    /\ \E i \in 1..Len(resps) : resps[i].status # 200

\* C5: a 200 response whose body cannot be decoded, within the error budget,
\* increments the error counter and leaves the chunk count, the continuation
\* token and the accumulated result as they were, the fetch going on to
\* re-issue the same request.
C5_DecodeFailureRetried ==
    [][(/\ Len(resps') = Len(resps) + 1
        /\ Last(resps').status = 200 /\ ~Last(resps').decoded
        /\ transfer_errors' <= max_retry)
       => /\ transfer_errors' = transfer_errors + 1
          /\ fpc' = "loop"
          /\ nb_chunks' = nb_chunks
          /\ params_key' = params_key
          /\ data_rec' = data_rec]_vars

\* C6 as stated: an HTTPError raised on an exceeded budget always carries the
\* client's last HTTP status.
C6_CarriesLastStatus ==
    fpc = "raisedHTTP" => err_arg = [kind |-> "status", code |-> http_status]
\* C6 amended: it carries the status code of the last response when that
\* response had a non-success status, and the text "resp.json exception"
\* (the last status being 200) when the last response failed to decode.
C6_CarriesStatusOrText ==
    fpc = "raisedHTTP" =>
        /\ http_status = Last(resps).status
        /\ IF Last(resps).status # 200
           THEN err_arg = [kind |-> "status", code |-> Last(resps).status]
           ELSE /\ ~Last(resps).decoded
                /\ err_arg = [kind |-> "resp.json exception", code |-> 0]
C6_Witness ==
    /\ fpc = "raisedHTTP" /\ Len(resps) >= 2
    /\ Last(resps).status = 200
    /\ resps[Len(resps) - 1].status # 200
    /\ err_arg.kind = "resp.json exception"

\* ------------------------------------------ properties: differential sync
CountOps(ops) == Cardinality({i \in 1..Len(events) : events[i].op \in ops})
InPartition == cur # 0 /\ upc \in {"diff", "updates", "failed", "partition", "done"}

\* A partition that update() without since found without a watermark.
C7_Skipped == InPartition /\ get_since /\ wm_before[cur] = 0
C7_SkipState ==
    C7_Skipped =>
        /\ events = <<[op |-> "increment_get", ids |-> <<>>]>>
        /\ watermark = wm_before
        /\ upc \in {"updates", "partition", "done"}
\* C7: in update() without since, a partition for which increment_get finds no
\* watermark is skipped: the only call made for it is the increment_get, no
\* watermark is written, and update() goes on to the next partition.
C7_NoPriorStateSkipped ==
    /\ []C7_SkipState
    /\ [][(C7_Skipped /\ upc = "updates") =>
             (upc' = "partition" /\ ti' = ti + 1 /\ watermark' = watermark
              /\ events' = events /\ download_log' = download_log)]_vars
C7_Witness ==
    /\ get_since /\ ti = 2 /\ upc = "updates" /\ ui = 2
    /\ taxo_list[1] # taxo_list[2]
    /\ watermark[taxo_list[1]] = 0
    /\ wm_before[cur] = 1

\* C8: for a partition that has a since value the watermark is set to the
\* start time of the attempt before the diff fetch is issued, so that when
\* a fetch or the classification fails the watermark is already advanced
\* while no delete and not every update of the diff has been applied.
C8_OptimisticWatermark ==
    (InPartition /\ since # 0) =>
        /\ watermark[cur] = started_at
        /\ started_at > wm_before[cur]
        /\ \A i \in 1..Len(events) : events[i].op = "api_diff" =>
              \E j \in 1..(i - 1) : events[j].op = "increment_log"
        /\ upc = "failed" =>
              /\ CountOps({"delete_obs"}) = 0
              /\ CountOps({"store"}) < Len(items_dict) \/ items_dict = <<>>
C8_Witness ==
    /\ upc = "failed" /\ uerr = "HTTPError" /\ get_since
    /\ wm_before[cur] = 1 /\ watermark[cur] = started_at
    /\ Len(items_dict) = 2 /\ CountOps({"store"}) = 1

KnownMarker(it) == it.modification_type \in {"updated", "deleted"}

\* C9: a diff response holding an item whose modification_type is neither
\* 'updated' nor 'deleted' makes update() raise NotImplementedException with
\* no api_get, log, store or delete_obs call made for that response.
C9_UnknownMarkerStoresNothing ==
    (\E i \in 1..Len(items_dict) : ~KnownMarker(items_dict[i])) =>
        /\ upc = "failed"
        /\ uerr = "NotImplementedException"
        /\ CountOps({"api_get", "log", "store", "delete_obs"}) = 0
C9_Witness ==
    /\ upc = "failed" /\ Len(items_dict) = 2
    /\ items_dict[1].modification_type = "updated"
    /\ ~KnownMarker(items_dict[2])

IsUpdatedItem(it) == it.modification_type = "updated"
IsDeletedItem(it) == it.modification_type = "deleted"
IsDispatch(e) == e.op \in {"api_get", "store", "delete_obs"}
IdsOf(its) == [i \in 1..Len(its) |-> its[i].id_sighting]
RECURSIVE GetAndStore(_)
GetAndStore(ids) ==
    IF ids = <<>> THEN <<>>
    ELSE <<[op |-> "api_get", ids |-> <<Head(ids)>>],
           [op |-> "store", ids |-> <<Head(ids)>>]>> \o GetAndStore(Tail(ids))
\* The dispatch the diff response its calls for.
Dispatch(its) ==
    LET del == IdsOf(SelectSeq(its, IsDeletedItem))
    IN  GetAndStore(IdsOf(SelectSeq(its, IsUpdatedItem)))
        \o (IF del = <<>> THEN <<>> ELSE <<[op |-> "delete_obs", ids |-> del]>>)
IsPrefix(p, q) == Len(p) <= Len(q) /\ \A i \in 1..Len(p) : p[i] = q[i]

\* C10: for a diff response whose items are all 'updated' or 'deleted',
\* update() makes one api_get followed by one store per 'updated' item, in the
\* order of the diff, and then one delete_obs carrying all the 'deleted' ids
\* when there is one, none otherwise; a partition that completes has made
\* exactly these calls.
C10_DiffDispatch ==
    (InPartition /\ \A i \in 1..Len(items_dict) : KnownMarker(items_dict[i])) =>
        LET made == SelectSeq(events, IsDispatch)
        IN  /\ IsPrefix(made, Dispatch(items_dict))
            /\ upc \in {"partition", "done"} => made = Dispatch(items_dict)
            /\ CountOps({"log"}) = CountOps({"store"})
C10_Witness ==
    /\ upc = "partition" /\ Len(items_dict) = 2
    /\ items_dict[1].modification_type = "deleted"
    /\ items_dict[2].modification_type = "updated"
    /\ Len(SelectSeq(events, IsDispatch)) = 3

\* ------------------------------------------- properties: error isolation
\* The exceptions _url_get raises on purpose: HTTPError and MaxChunksError.
FetchErrors == {"HTTPError", "MaxChunksError"}

\* C11: a fetch-level error raised while one partition is processed aborts
\* only that partition: update() is never ended by such an error while
\* partitions of taxo_list remain to be processed.
C11_PartitionErrorIsolated ==
    ~(upc = "failed" /\ uerr \in FetchErrors /\ ti < Len(taxo_list))

\* ------------------------------------------ properties: upsert pipeline
AllStopped == \A w \in Workers : Stopped(w)
NoneRaised == \A w \in Workers : wpc[w] # "raised"
QueuedTasks == {i \in 1..Len(observations_queue) : observations_queue[i] # None}
QueuedNones == {i \in 1..Len(observations_queue) : observations_queue[i] = None}

\* C12: once the write tasks are submitted and shutdown is signaled, every
\* task has been executed to completion by the time the last worker thread
\* has exited, provided no write task raised: nothing is left in the queue
\* and as many upserts returned as tasks were put.
C12_WorkerPoolDrain ==
    (AllStopped /\ NoneRaised) => (QueuedTasks = {} /\ nb_done = nb_put)
C12_Witness ==
    /\ AllStopped
    /\ NoneRaised
    /\ nb_put = MaxTask
    /\ nb_done = nb_put

\* C13: a shutdown sentinel is never in the queue together with a write
\* task: the sentinels are put only once the queue is empty of tasks.
C13_SentinelsAfterDrain == ~(QueuedNones # {} /\ QueuedTasks # {})

AtMostOneRow(table) == \A r1, r2 \in table : r1.id = r2.id => r1 = r2

\* C14: each table holds at most one row per (id, site), and no worker ever
\* attempts the insert of a key that is already present (the attempt is the
\* refused insert that ends the worker thread).
C14_NoConcurrentUpsertRace ==
    /\ AtMostOneRow(observations_json)
    /\ AtMostOneRow(uuid_xref)
    /\ AtMostOneRow(forms_json)
    /\ NoneRaised

HasUuid(id) == Select(uuid_xref, id) # {}

\* A step that holds a _store_uuid call leaves exactly one identity row for
\* the (id, site) of the call.
UuidCallLeavesOneRow ==
    nb_uuid' # nb_uuid =>
        Cardinality(Select(uuid_xref', Head(obs_dict.sightings).id_sighting)) = 1

\* C16: however often _store_uuid is called for one (id, site) there is
\* exactly one identity row for it, and no step of any operation (later
\* calls, write tasks, delete_obs) changes or removes an identity row: its
\* uuid, universal_id and update_ts stay those of the first call.
C16_IdentityExactlyOnce ==
    /\ []AtMostOneRow(uuid_xref)
    /\ [][UuidCallLeavesOneRow /\ uuid_xref \subseteq uuid_xref']_vars
C16_Witness ==
    /\ nb_uuid >= 2
    /\ \E r \in uuid_xref : uuid_xref = {r} /\ r.uuid = 1 /\ r.update_ts = 1
    /\ nb_done >= 1
    /\ observations_json = {}

\* C17: the identity row of a record is there before its write task is put
\* on the queue: every task in the queue, and every task a worker is
\* executing, is for a key that has its identity row.
C17_IdentityBeforeWrite ==
    /\ \A i \in QueuedTasks : HasUuid(observations_queue[i].elem.id_sighting)
    /\ \A w \in Workers :
           wpc[w] \in {"select", "execute"} => HasUuid(witem[w].id_sighting)

\* C18: every (id, site) that has an observation row has an identity row,
\* whether the sighting came top-level or embedded in a form.
C18_ObservationHasIdentity ==
    \A r \in observations_json : HasUuid(r.id)

\* ----------------------------------------- properties: synchronous upserts
\* The table the last store wrote to, as it is now
StoredTable ==
    IF last_store.controler = "observations" THEN observations_json
    ELSE json_tables[last_store.controler]
\* TRUE when row i is the last row of the store's rows for its key
IsLastForKey(rows, i) == \A j \in (i + 1)..Len(rows) : rows[j].id # rows[i].id
KeysOf(rows) == {rows[i].id : i \in 1..Len(rows)}

\* C15: for every controler type, after a record is stored the table holds
\* exactly one row for its (id, site), with the content (and update
\* timestamp) of the record stored last; a key that had a row keeps one row
\* (updated in place, no second row), a record stored again unchanged
\* leaves the table as it was, and the rows of other keys are not touched.
C15_UpsertIdempotent ==
    last_store.controler # "none" =>
        LET rows == last_store.rows
            before == last_store.before
            new == {k \in KeysOf(rows) : Select(before, k) = {}}
        IN  /\ AtMostOneRow(StoredTable)
            /\ \A i \in 1..Len(rows) :
                   IsLastForKey(rows, i) => Select(StoredTable, rows[i].id) = {rows[i]}
            /\ Cardinality(StoredTable) = Cardinality(before) + Cardinality(new)
            /\ \A r \in before : r.id \notin KeysOf(rows) => r \in StoredTable
            /\ (\A i \in 1..Len(rows) : rows[i] \in before) => StoredTable = before
\* An observation stored again with a changed update timestamp
C15_Witness ==
    /\ last_store.controler = "observations"
    /\ \E r \in last_store.before :
           /\ r.id = last_store.rows[1].id
           /\ r.update_ts # last_store.rows[1].update_ts
    /\ Cardinality(observations_json) = Cardinality(last_store.before)

\* ---------------------------------------------- properties: rate regulator
\* C19: the size of each window is the initial 15 days plus 0.003 times the
\* running sum of (10000 - count) over the windows before it, saturated at
\* each step to [10, 2000]; counts all equal to 10000 leave it at 15.
C19_RegulatorLaw ==
    rpc = "walk" =>
        /\ delta_days * Scale = law
        /\ (fed = {Setpoint} => delta_days = InitialDelta)

\* The number of windows of no record after which the integral term has
\* reached the upper limit
FeedsToMax == (OutputMax * Scale) \div (Ki * Setpoint) + 1

IncreasesToMax ==
    \/ delta_days' > delta_days
    \/ delta_days = OutputMax /\ delta_days' = OutputMax
DecreasesToMin ==
    \/ delta_days' < delta_days
    \/ delta_days = OutputMin /\ delta_days' = OutputMin

\* C20: while every count is 0 each window is strictly larger than the one
\* before until the size is 2000, where it stays; while every count is far
\* above 10000 each window is strictly smaller than the one before until the
\* size is 10, where it stays.
C20_RegulatorDirection ==
    /\ [][seq' = seq + 1 =>
            /\ (fed' = {0} => IncreasesToMax)
            /\ (fed' # {} /\ fed' \subseteq FarAbove => DecreasesToMin)]_vars
    /\ [](fed = {0} /\ seq > FeedsToMax => delta_days = OutputMax)
    /\ [](fed # {} /\ fed \subseteq FarAbove => delta_days = OutputMin)
C20_Witness ==
    /\ fed = {0}
    /\ seq = FeedsToMax + 2
    /\ delta_days = OutputMax

\* ---------------------------------------------- properties: backfill walk
\* C21: the first window of a walk is 15 days, and every later window is a
\* whole number of days from 10 to 2000, whatever counts store() returned.
C21_WindowBounds ==
    rpc = "walk" =>
        /\ (seq = 1 => delta_days = InitialDelta)
        /\ (seq > 1 => delta_days \in OutputMin..OutputMax)
C21_Witness ==
    /\ rpc = "walk"
    /\ seq > 2
    /\ delta_days = OutputMin
    /\ 0 \in fed
    /\ fed \cap FarAbove # {}

\* A window is requested
WindowRequested == rpc = "walk" /\ Len(events') > Len(events)
\* The walk of a taxo_group stops
WalkStops == rpc = "walk" /\ rpc' = "partition"

\* C22: as long as api_search and store return, the walk of every
\* taxo_group ends; a window is requested only while the start of the window
\* before it (now, for the first) is after min_date, and the walk stops only
\* once the start of the last window is at or before min_date.
C22_WalkTermination ==
    /\ [](rpc = "walk" => <>(rpc \in {"partition", "failed"}))
    /\ <>(rpc \in {"done", "failed"})
    /\ [][WindowRequested => start_date > MinDate]_vars
    /\ [][WalkStops => (start_date <= MinDate /\ seq > 1)]_vars
C22_Witness ==
    /\ rpc = "done"
    /\ Len(taxo_list) = MaxPart
    /\ seq > 3
    /\ start_date = MinDate

\* C23: during a backfill the watermark of the taxo_group is written after
\* each window that was fetched and stored: no window is left stored with no
\* increment_log call made after it.
C23_WatermarkAfterWindow ==
    (rpc # "idle" /\ events # <<>>) => Last(events).op # "store"

\* The taxo_groups of the cached list whose access_mode is 'none'
Inactive == {p \in Partitions : taxo_groups[p] = "none"}

\* C24: in a backfill of all taxo_groups (id_taxo_group not given) a
\* taxo_group whose access_mode is 'none' is never searched, logged or
\* stored and gets no watermark, and when store() returns every other
\* taxo_group has been walked.
C24_ActivePartitionsOnly ==
    taxo_groups # <<>> =>
        /\ cur \notin Inactive
        /\ walked \cap Inactive = {}
        /\ \A p \in Inactive : watermark[p] = 0
        /\ rpc = "done" =>
              /\ walked = Partitions \ Inactive
              /\ \A p \in Partitions \ Inactive : watermark[p] # 0
C24_Witness ==
    /\ taxo_groups # <<>>
    /\ rpc = "done"
    /\ Inactive # {}
    /\ walked # {}

\* ------------------------------------- properties: connections, shutdown
\* The workers that are inside store_1_observation
Storing == {w \in Workers : wpc[w] \in {"select", "execute"}}

\* C25: a worker thread makes its store operations on a connection of its
\* own, which is neither the connection of the control path nor that of
\* another worker.
C25_ConnectionOwnership ==
    \A w \in Storing :
        /\ wconn[w] # ControlConn
        /\ \A v \in Storing \ {w} : wconn[v] # wconn[w]

\* The worker threads that are still alive
Alive == {w \in Workers : wpc[w] \in {"get", "select", "execute"}}

\* C26: the connection is closed only after every worker thread has ended,
\* and once it is closed no worker reads or writes the store.
C26_JoinBeforeRelease ==
    /\ [](spc = "closed" => Alive = {})
    /\ [][spc = "closed" => UNCHANGED <<observations_json, wpc, wrow>>]_vars
C26_Witness ==
    /\ spc = "closed"
    /\ nb_done = MaxTask
    /\ observations_json # {}

\* ------------------------------------------- properties: search parameters
\* C27: api_search called with no query body raises IncorrectParameter with
\* no request sent, and leaves transfer_errors and http_status as they were.
C27_MissingSearchBody ==
    /\ [](no_body => (fpc = "raisedIncorrectParameter" /\ resps = <<>>))
    /\ [][no_body' => (/\ transfer_errors' = transfer_errors
                       /\ http_status' = http_status
                       /\ calls' = calls)]_vars
C27_Witness ==
    /\ no_body
    /\ fpc = "raisedIncorrectParameter"
    /\ transfer_errors > 0
    /\ http_status \in BadStatus

\* ---------------------------------------- properties: synchronous stores
\* C28: when store() returns for a simple or geometry controler every
\* record of the response has its row in the table, nothing was put on the
\* worker queue, and the count returned is the number of records.
C28_SynchronousInline ==
    /\ [](last_store.controler \in SyncControlers =>
            /\ \A i \in 1..Len(last_store.rows) :
                  Select(StoredTable, last_store.rows[i].id) # {}
            /\ last_store.nb_item = Len(last_store.rows))
    /\ [][last_store'.controler \in SyncControlers =>
            UNCHANGED <<observations_queue, nb_put, wpc>>]_vars
C28_Witness ==
    /\ last_store.controler = "places"
    /\ last_store.nb_item = MaxData
    /\ Cardinality(StoredTable) = MaxData
    /\ last_store.before = {}

\* ------------------------------------------ properties: observation stores
\* C29: store() of an observations response returns the number of write
\* tasks it put on the queue, one for each sighting of the response,
\* top-level or embedded in a form, and upserts each form once; so it does
\* for a response that has forms and no top-level sightings list.
C29_SubmitCount ==
    /\ spc # "KeyError"
    /\ spc = "store" => nb_obs + NbSightings(obs_dict) = nb_given
    /\ (spc = "store" /\ obs_dict = NoDict) => nb_obs = nb_given

\* ------------------------------------------- properties: watermark table
\* The number of rows of the table for a (site, taxo_group)
NbIncrementRows(site, taxo_group) ==
    BagCardinality([r \in IncrementRows(increment_log, site, taxo_group) |->
                       increment_log[r]])

\* C30: the table holds at most one row for each (site, taxo_group);
\* increment_get returns the last_ts of the latest increment_log of the
\* pair, None when there was none; a call for a pair leaves the rows of the
\* other pairs as they are; no row is ever removed.
C30_WatermarkTable ==
    /\ [](\A k \in WKeys :
            /\ NbIncrementRows(k[1], k[2]) <= 1
            /\ IncrementGetStmt(increment_log, k[1], k[2]) = {last_logged[k]})
    /\ [][got' # got =>
            got'.last_ts = last_logged[<<got'.site, got'.taxo_group>>]]_vars
    /\ [][\A k \in WKeys :
            /\ last_logged'[k] = last_logged[k] =>
                  IncrementRows(increment_log', k[1], k[2])
                      = IncrementRows(increment_log, k[1], k[2])
            /\ NbIncrementRows(k[1], k[2]) = 1 =>
                  IncrementRows(increment_log', k[1], k[2]) # {}]_vars
C30_Witness ==
    /\ \A k \in WKeys : last_logged[k] # 0
    /\ got.last_ts = 2
    /\ \E r \in BagToSet(increment_log) : r.last_ts = 1

\* ---------------------------------------------------- properties: deletes
\* The ids of the list of a delete_obs call
DeletedIds == {last_store.rows[i] : i \in 1..Len(last_store.rows)}
\* The rows of the current site the call had to remove
ToRemove == {r \in last_store.before : r.id \in DeletedIds /\ r.site = "vn1"}

\* C31: delete_obs(ids) removes the observation rows of the current site
\* whose id is in ids and no other row, returns the number of rows it
\* removed, and leaves the identity table, the watermark table and the audit
\* log as they were.
C31_DeleteFrame ==
    /\ [](last_store.controler = "delete_obs" =>
            /\ observations_json = last_store.before \ ToRemove
            /\ last_store.nb_item = Cardinality(ToRemove))
    /\ [][UNCHANGED <<uuid_xref, forms_json, increment_log, watermark,
                      download_log>>]_vars
C31_Witness ==
    /\ last_store.controler = "delete_obs"
    /\ Len(last_store.rows) = MaxData
    /\ last_store.nb_item = 1
    /\ \E r \in observations_json : r.id \in DeletedIds /\ r.site # "vn1"

\* -------------------------------------------------- properties: audit log
\* A step that completes a fetch of update(): the diff fetch of a partition
\* or the fetch and store of one updated observation
CycleCompletes ==
    \/ upc = "diff" /\ upc' = "updates"
    \/ upc = "updates" /\ ui' = ui + 1

\* C32: one audit entry is appended for each completed fetch-and-store
\* cycle, the diff fetch of an incremental sync included, none is appended
\* otherwise, and the entries already written are never modified or removed.
C32_OneEntryPerCycle ==
    [][/\ Len(download_log') >= Len(download_log)
       /\ SubSeq(download_log', 1, Len(download_log)) = download_log
       /\ Len(download_log') = Len(download_log) + (IF CycleCompletes THEN 1 ELSE 0)]_vars

\* ------------------------------------------- properties: deletes and queue
\* Every write task put on the queue has been executed
QueueDrained ==
    /\ \A i \in 1..Len(observations_queue) : observations_queue[i] = None
    /\ \A w \in Workers : wpc[w] \notin {"select", "execute"}

\* C33: once the write tasks of the queue have all been executed, no id of
\* the list given to delete_obs has an observation row of the current site,
\* whatever the interleaving of the workers with the control thread.
C33_DeletedStayDeleted ==
    QueueDrained =>
        \A i \in 1..Len(deleted) :
            \A r \in observations_json : ~(r.id = deleted[i] /\ r.site = "vn1")

C35_RetrySameRequest ==
    /\ [](\A i \in 1..(Len(resps) - 1) :
            resps[i].status # 200 => resps[i + 1].req = resps[i].req)
    /\ [][(Len(resps') = Len(resps) + 1 /\ Last(resps').status # 200) =>
            /\ nb_chunks' = nb_chunks
            /\ params_key' = params_key
            /\ data_rec' = data_rec
            /\ transfer_errors' = transfer_errors + 1
            /\ http_status' = Last(resps').status]_vars
C35_Witness ==
    \E i \in 1..(Len(resps) - 1) :
        /\ resps[i].status # 200
        /\ resps[i].req.key # 0
        /\ resps[i + 1].req = resps[i].req

\* ---------------------------------------------- properties: continuation
\* A step that consumes a chunk: a decoded body that the merge accepts
ChunkConsumed ==
    /\ Len(resps') = Len(resps) + 1
    /\ IsChunk(Last(resps'))
    /\ fpc' # "crashed"
\* The response of the step carries both continuation headers
BothHeaders == Last(resps').chunked /\ Last(resps').key # 0

\* C36, as stated: after a consumed chunk a further request is issued if and
\* only if the response carries both continuation headers.
C36_ContinuationIffHeaders ==
    [][ChunkConsumed => (fpc' = "loop" <=> BothHeaders)]_vars

\* C36, amended: after a consumed chunk a further request is issued if and
\* only if the response carries both continuation headers and the chunk
\* count stays below max_chunks; that request carries the token of the
\* response; with both headers at the ceiling MaxChunksError is raised; with
\* a header absent the fetch returns the accumulated result and no token is
\* left in the parameters.
C36_ContinuationProtocol ==
    [][ChunkConsumed =>
        /\ fpc' = "loop" <=> (BothHeaders /\ nb_chunks + 1 < max_chunks)
        /\ fpc' = "loop" => /\ params_key' = Last(resps').key
                            /\ nb_chunks' = nb_chunks + 1
        /\ (BothHeaders /\ nb_chunks + 1 >= max_chunks) => fpc' = "raisedMaxChunks"
        /\ ~BothHeaders => /\ fpc' = "returned"
                           /\ params_key' = 0
                           /\ nb_chunks' = nb_chunks]_vars
    /\ [](\A i \in 2..Len(resps) :
            (IsChunk(resps[i - 1]) /\ resps[i - 1].chunked /\ resps[i - 1].key # 0)
                => resps[i].req.key = resps[i - 1].key)
C36_Witness ==
    /\ fpc = "returned"
    /\ Len(resps) = 2
    /\ IsChunk(resps[1]) /\ resps[1].chunked /\ resps[1].key # 0
    /\ IsChunk(resps[2]) /\ resps[2].req.key = resps[1].key
    /\ resps[2].key # 0 /\ ~resps[2].chunked
    /\ params_key = 0

\* ------------------------------------------------ properties: termination
\* The number of requests of a call stays within max_chunks + max_retry + 1
RequestsBounded == Len(resps) <= max_chunks + max_retry + 1

\* C37: a call of the fetch ends by returning or by raising HTTPError or
\* MaxChunksError, after max_chunks + max_retry + 1 requests at most,
\* whatever the provider answers.
C37_FetchTermination ==
    /\ RequestsBounded
    /\ fpc \in {"idle", "loop", "returned", "raisedHTTP", "raisedMaxChunks",
                "raisedIncorrectParameter"}

\* ------------------------------------------- properties: backfill windows
IsSearch(e) == e.op = "api_search"
\* The windows <<date_from, date_to>> requested so far in the walk of cur
Windows == SelectSeq(events, IsSearch)

\* C38: in the walk of a taxo_group the first window ends at the time the
\* walk started, each later window ends where the window before it starts,
\* every window starts before it ends, and when the walk stops the last
\* window starts at min_date or before: the windows cover min_date to now
\* with no gap.
C38_WindowsContiguous ==
    /\ [](rpc = "walk" =>
            /\ (Windows # <<>> => Windows[1].ids[2] = now)
            /\ \A i \in 2..Len(Windows) : Windows[i].ids[2] = Windows[i - 1].ids[1]
            /\ \A i \in 1..Len(Windows) : Windows[i].ids[1] < Windows[i].ids[2])
    /\ [][(rpc = "walk" /\ rpc' = "partition") =>
            (Windows # <<>> /\ Last(Windows).ids[1] <= 0)]_vars
C38_Witness ==
    /\ rpc = "walk"
    /\ Len(Windows) >= 3
    /\ Last(Windows).ids[1] <= 0
    /\ Windows[2].ids[2] - Windows[2].ids[1] # Windows[1].ids[2] - Windows[1].ids[1]

\* --------------------------------------------- properties: logged status
\* C39: after every response http_status is the status code of that
\* response; when a fetch has returned it is 200; every audit entry written
\* after a fetch records status 200 and the error count the client has at
\* that moment.
C39_LoggedStatus ==
    /\ [](resps # <<>> => http_status = Last(resps).status)
    /\ [](fpc = "returned" => http_status = 200)
    /\ [][download_log' # download_log =>
            /\ fpc = "returned"
            /\ SubSeq(download_log', 1, Len(download_log)) = download_log
            /\ Len(download_log') = Len(download_log) + 1
            /\ Last(download_log').http_status = 200
            /\ Last(download_log').error_count = transfer_errors]_vars
C39_Witness ==
    /\ Len(download_log) = 2
    /\ download_log[1].error_count = 0
    /\ download_log[2].error_count > 0
    /\ download_log[2].error_count = transfer_errors

=============================================================================
